---- MODULE Spec2Model ----
(***************************************************************************)
(* Model of the Bank Austria CSV statement parser                          *)
(* (src/src/ofxstatement/plugins/bankaustria.py).                          *)
(*                                                                         *)
(* Text is a sequence of one-character strings, so that prefixes, regular  *)
(* expressions, trimming and whitespace cleaning are computed character by *)
(* character.  A CSV row is a tuple of 15 texts; Python's line[i] is       *)
(* Col(line, i).  Amounts are integers counted in cents.                   *)
(***************************************************************************)
EXTENDS Integers, Sequences, FiniteSets, TLC

VARIABLES fin, cur_record, currency, lines, start_balance, end_balance, pc

vars == <<fin, cur_record, currency, lines, start_balance, end_balance, pc>>

(***************************************************************************)
(* Text helpers (Python str methods used by the parser).                   *)
(***************************************************************************)
Digits == {"0", "1", "2", "3", "4", "5", "6", "7", "8", "9"}

Uppers == {"A", "B", "C", "D", "E", "F", "G", "H", "I", "J", "K", "L", "M", "N", "O", "P", "Q", "R", "S", "T", "U", "V", "W", "X", "Y", "Z"}

Whitespace == {" ", "\t", "\n"}

DigitVal(c) == CASE c = "0" -> 0 [] c = "1" -> 1 [] c = "2" -> 2 [] c = "3" -> 3 [] c = "4" -> 4 [] c = "5" -> 5 [] c = "6" -> 6 [] c = "7" -> 7 [] c = "8" -> 8 [] c = "9" -> 9

Col(line, i) == line[i + 1]

\* s[pos+1 .. pos+Len(p)] = p : the text p occurs in s at offset pos
StartsAt(s, pos, p) == pos + Len(p) <= Len(s) /\ SubSeq(s, pos + 1, pos + Len(p)) = p

\* str.startswith
StartsWith(s, p) == StartsAt(s, 0, p)

MaxOf(S) == CHOOSE n \in S : \A m \in S : m <= n

MinOf(S) == CHOOSE n \in S : \A m \in S : n <= m

\* str.strip(): drop leading and trailing whitespace
Strip(s) ==
  LET keep == {i \in 1..Len(s) : s[i] \notin Whitespace}
  IN IF keep = {} THEN << >> ELSE SubSeq(s, MinOf(keep), MaxOf(keep))

\* value.replace(a, b) for a single character a and a text b
RECURSIVE Replace(_, _, _)
Replace(s, a, b) ==
  IF s = << >> THEN << >>
  ELSE (IF Head(s) = a THEN b ELSE <<Head(s)>>) \o Replace(Tail(s), a, b)

(***************************************************************************)
(* ofxstatement.plugins.utils: clean_multiple_whitespaces and              *)
(* fix_amount_string.  The file is not among the sources; both follow the  *)
(* specification (sections 4.1 and 4.2).                                   *)
(***************************************************************************)
\* ' '.join(s.split()): every maximal whitespace run becomes one space, the
\* edges are trimmed
RECURSIVE Collapse(_)
Collapse(s) ==
  IF s = << >> THEN << >>
  ELSE IF Head(s) \in Whitespace
       THEN (IF Len(s) > 1 /\ s[2] \in Whitespace THEN << >> ELSE <<" ">>) \o Collapse(Tail(s))
       ELSE <<Head(s)>> \o Collapse(Tail(s))

clean_multiple_whitespaces(s) == Collapse(Strip(s))

\* German number format: drop the thousands separator ".", turn the decimal
\* comma into a decimal point
fix_amount_string(value) == Replace(Replace(value, ".", << >>), ",", <<".">>)

(***************************************************************************)
(* Value parsing done by the statement framework on the mapped columns.    *)
(***************************************************************************)
RECURSIVE DigitsVal(_)
DigitsVal(s) == IF s = << >> THEN 0 ELSE DigitsVal(SubSeq(s, 1, Len(s) - 1)) * 10 + DigitVal(s[Len(s)])

AllDigits(s) == s # << >> /\ \A i \in 1..Len(s) : s[i] \in Digits

\* the canonical decimal text is [sign] digits [ "." one or two digits ]
IsDecimal(s) ==
  LET body == IF s # << >> /\ s[1] \in {"-", "+"} THEN Tail(s) ELSE s
      dots == {i \in 1..Len(body) : body[i] = "."}
  IN \/ AllDigits(body)
     \/ /\ Cardinality(dots) = 1
        /\ LET d == MinOf(dots)
           IN /\ AllDigits(SubSeq(body, 1, d - 1))
              /\ AllDigits(SubSeq(body, d + 1, Len(body)))
              /\ Len(body) - d <= 2

\* the amount in cents of a canonical decimal text
parse_decimal(s) ==
  LET neg == s[1] = "-"
      body == IF s[1] \in {"-", "+"} THEN Tail(s) ELSE s
      dots == {i \in 1..Len(body) : body[i] = "."}
      d == IF dots = {} THEN Len(body) + 1 ELSE MinOf(dots)
      whole == DigitsVal(SubSeq(body, 1, d - 1))
      frac == SubSeq(body, d + 1, Len(body))
      cents == IF Len(frac) = 0 THEN 0 ELSE IF Len(frac) = 1 THEN DigitVal(frac[1]) * 10 ELSE DigitsVal(frac)
  IN (IF neg THEN -1 ELSE 1) * (whole * 100 + cents)

\* date_format = "%d.%m.%Y"
IsDate(s) ==
  /\ Len(s) = 10
  /\ s[3] = "." /\ s[6] = "."
  /\ \A i \in {1, 2, 4, 5, 7, 8, 9, 10} : s[i] \in Digits
  /\ DigitsVal(SubSeq(s, 1, 2)) \in 1..31
  /\ DigitsVal(SubSeq(s, 4, 5)) \in 1..12

parse_datetime(s) == [y |-> DigitsVal(SubSeq(s, 7, 10)), m |-> DigitsVal(SubSeq(s, 4, 5)), d |-> DigitsVal(SubSeq(s, 1, 2))]

(***************************************************************************)
(* Regular expressions.  A pattern is a sequence of elements               *)
(*   [k |-> "lit", s]          the literal text s                          *)
(*   [k |-> "alt", o]          one of the literal texts of the sequence o  *)
(*   [k |-> "rep", c, lo, hi]  lo..hi characters of class c, greedy (hi = -1 *)
(*                             is unbounded)                               *)
(* Match(re, k, s, pos) matches elements k.. of re at offset pos with      *)
(* Python's backtracking priority and gives the offset at which each       *)
(* element started, followed by the offset at which the match ended.       *)
(***************************************************************************)
InClass(c, cls) ==
  CASE cls = "any" -> c # "\n"
    [] cls = "digit" -> c \in Digits
    [] cls = "upper" -> c \in Uppers
    [] cls = "digdot" -> c \in Digits \cup {"."}
    [] cls = "space" -> c = " "

Lit(s) == [k |-> "lit", s |-> s, o |-> << >>, c |-> "", lo |-> 0, hi |-> 0]

Alt(o) == [k |-> "alt", s |-> << >>, o |-> o, c |-> "", lo |-> 0, hi |-> 0]

Rep(c, lo, hi) == [k |-> "rep", s |-> << >>, o |-> << >>, c |-> c, lo |-> lo, hi |-> hi]

NoMatch == [ok |-> FALSE, p |-> << >>]

\* the longest run of class-c characters of s from offset pos, capped at hi
Run(s, pos, c, hi) ==
  LET cap == IF hi = -1 \/ hi > Len(s) - pos THEN Len(s) - pos ELSE hi
      stop == {n \in 0..cap : n = cap \/ ~InClass(s[pos + n + 1], c)}
  IN MinOf(stop)

\* whether element k of re can start at offset pos, as far as a literal shows it
CanStart(re, k, s, pos) ==
  IF k > Len(re) THEN TRUE
  ELSE CASE re[k].k = "lit" -> StartsAt(s, pos, re[k].s)
         [] re[k].k = "alt" -> \E i \in 1..Len(re[k].o) : StartsAt(s, pos, re[k].o[i])
         [] re[k].k = "rep" -> TRUE

RECURSIVE Match(_, _, _, _), FirstOf(_, _, _, _, _)
Match(re, k, s, pos) ==
  IF k > Len(re) THEN [ok |-> TRUE, p |-> <<pos>>]
  ELSE LET e == re[k] IN
    CASE e.k = "lit" ->
           IF StartsAt(s, pos, e.s) THEN FirstOf(re, k, s, pos, <<Len(e.s)>>) ELSE NoMatch
      [] e.k = "alt" ->
           \* the alternatives in the order written
           FirstOf(re, k, s, pos, [i \in 1..Len(e.o) |-> IF StartsAt(s, pos, e.o[i]) THEN Len(e.o[i]) ELSE -1])
      [] e.k = "rep" ->
           \* greedy: the longest repetition first
           LET run == Run(s, pos, e.c, e.hi)
           IN FirstOf(re, k, s, pos, [i \in 1..(run - e.lo + 1) |-> IF CanStart(re, k + 1, s, pos + run - i + 1) THEN run - i + 1 ELSE -1])

\* element k consumes the first length of `lens` (-1: not possible) after which
\* the rest of the pattern matches
FirstOf(re, k, s, pos, lens) ==
  LET live == {i \in 1..Len(lens) : lens[i] >= 0}
  IN IF live = {} THEN NoMatch
     ELSE LET i == MinOf(live)
              r == Match(re, k + 1, s, pos + lens[i])
          IN IF r.ok THEN [ok |-> TRUE, p |-> <<pos>> \o r.p]
             ELSE FirstOf(re, k, s, pos, [j \in 1..Len(lens) |-> IF j <= i THEN -1 ELSE lens[j]])

\* pattern.findall(s)[0]: the leftmost match, searched from offset `from`
RECURSIVE Search(_, _, _)
Search(re, s, from) ==
  IF from > Len(s) THEN NoMatch
  ELSE LET r == Match(re, 1, s, from)
       IN IF r.ok THEN r ELSE Search(re, s, from + 1)

\* the text matched by elements i..j of the pattern
Group(s, r, i, j) == SubSeq(s, r.p[i] + 1, r.p[j + 1])

(***************************************************************************)
(* parsePosAtm: the fixed-layout POS/ATM booking text.                     *)
(***************************************************************************)
\* '(POS|ATM) +([0-9]+,[0-9]+) ([A-Z]+) +(K[0-9]) +(......) (..:..) O (.{22}) +(.{13}) +(.*)'
PosAtmPattern ==
  << Alt(<<<<"P", "O", "S">>, <<"A", "T", "M">>>>), Rep("space", 1, -1),
     Rep("digit", 1, -1), Lit(<<",">>), Rep("digit", 1, -1), Lit(<<" ">>),
     Rep("upper", 1, -1), Rep("space", 1, -1),
     Lit(<<"K">>), Rep("digit", 1, 1), Rep("space", 1, -1),
     Rep("any", 6, 6), Lit(<<" ">>),
     Rep("any", 2, 2), Lit(<<":">>), Rep("any", 2, 2), Lit(<<" ", "O", " ">>),
     Rep("any", 22, 22), Rep("space", 1, -1),
     Rep("any", 13, 13), Rep("space", 1, -1),
     Rep("any", 0, -1) >>

parsePosAtm_NoSentinel(toparse, cur) ==
  LET r == Search(PosAtmPattern, toparse, 0)
  IN IF r.ok
     THEN Group(toparse, r, 1, 1) \o <<":", " ">> \o Strip(Group(toparse, r, 18, 18)) \o <<",", " ">>
          \o Group(toparse, r, 22, 22) \o <<" ">> \o Strip(Group(toparse, r, 20, 20)) \o <<",", " ">>
          \o Group(toparse, r, 7, 7) \o <<";", " ">> \o Group(toparse, r, 3, 5) \o <<" ">> \o cur
          \o <<" ", "o", "n", " ">> \o Group(toparse, r, 12, 12) \o <<" ">> \o Group(toparse, r, 14, 16) \o <<"h">>
     ELSE toparse

\* memo = '%s: %s, %s %s, %s; %s %s on %s %sh' % (m[0], m[6].strip(), m[8],
\*         m[7].strip(), m[2], m[1], self.statement.currency, m[4], m[5])
parsePosAtm(toparse, cur) ==
  LET r == Search(PosAtmPattern, toparse, 0)
  IN IF r.ok
     THEN Group(toparse, r, 1, 1) \o <<":", " ">> \o Strip(Group(toparse, r, 18, 18)) \o <<",", " ">>
          \o Group(toparse, r, 22, 22) \o <<" ">> \o Strip(Group(toparse, r, 20, 20)) \o <<",", " ">>
          \o Group(toparse, r, 7, 7) \o <<";", " ">> \o Group(toparse, r, 3, 5) \o <<" ">> \o cur
          \o <<" ", "o", "n", " ">> \o Group(toparse, r, 12, 12) \o <<" ">> \o Group(toparse, r, 14, 16) \o <<"h">>
     ELSE <<"E", "R", "R", ":", " ">> \o toparse

(***************************************************************************)
(* parseDocument: the labeled document details (Belegdaten).               *)
(***************************************************************************)
\* '.*Belegnr.: ([0-9.]{18}).*(?:Zahlungsempf|Zahlungspfl).: (.{56}).*Zahlungsgrund: (.{105}).*Zahlungsref.: (.{110})'
DocumentPattern ==
  << Rep("any", 0, -1), Lit(<<"B", "e", "l", "e", "g", "n", "r">>), Rep("any", 1, 1), Lit(<<":", " ">>),
     Rep("digdot", 18, 18),
     Rep("any", 0, -1), Alt(<<<<"Z", "a", "h", "l", "u", "n", "g", "s", "e", "m", "p", "f">>, <<"Z", "a", "h", "l", "u", "n", "g", "s", "p", "f", "l">>>>), Rep("any", 1, 1), Lit(<<":", " ">>),
     Rep("any", 56, 56),
     Rep("any", 0, -1), Lit(<<"Z", "a", "h", "l", "u", "n", "g", "s", "g", "r", "u", "n", "d", ":", " ">>),
     Rep("any", 105, 105),
     Rep("any", 0, -1), Lit(<<"Z", "a", "h", "l", "u", "n", "g", "s", "r", "e", "f">>), Rep("any", 1, 1), Lit(<<":", " ">>),
     Rep("any", 110, 110) >>

parseDocument(toparse) ==
  LET r == Search(DocumentPattern, toparse, 0)
      reason == Strip(Group(toparse, r, 13, 13))
      ref == Strip(Group(toparse, r, 18, 18))
  IN IF r.ok
     THEN (IF reason # << >> THEN reason ELSE ref)
     ELSE <<"E", "R", "R", ":", " ">> \o toparse

(***************************************************************************)
(* parse_record: one CSV row to one statement line.                        *)
(***************************************************************************)
IsHeader_Zero(n) == n = 0

\* "Skip header line": self.cur_record == 1
IsHeader(n) == n = 1

\* line[5] = format(fix_amount_string(line[5]))
AmountText(line) == fix_amount_string(Col(line, 5))

\* super().parse_record(line) raises when a mapped date or amount column does
\* not parse
CsvParseOk(line) == IsDecimal(AmountText(line)) /\ IsDate(Col(line, 1)) /\ IsDate(Col(line, 0))

\* super().parse_record(line) with mappings = {"date": 1, "date_user": 0,
\* "memo": 14, "amount": 5, "check_no": 7, "payee": 11}
CsvParseRecord(line) ==
  [date |-> parse_datetime(Col(line, 1)),
   date_user |-> parse_datetime(Col(line, 0)),
   memo |-> Col(line, 14),
   amount |-> parse_decimal(AmountText(line)),
   check_no |-> Col(line, 7),
   payee |-> Col(line, 11)]

\* generate_transaction_id(stmtline): a hash of the line's date, amount, memo
\* and payee, taken as injective
generate_transaction_id(sl) == <<sl.date, sl.amount, sl.memo, sl.payee>>

\* the if/elif chain of "Fixup Memo, Payee, and TRXTYPE": the first branch
\* whose condition holds
Branch(line) ==
  LET t == Col(line, 2)
      doc == Col(line, 6)
  IN IF StartsWith(t, <<"P", "O", "S">>) THEN 1
     ELSE IF StartsWith(t, <<"A", "T", "M">>) THEN 2
     ELSE IF StartsWith(t, <<"A", "U", "T", "O", "M", "A", "T">>) \/ StartsWith(t, <<"B", "A", "N", "K", "O", "M", "A", "T">>) THEN 3
     ELSE IF StartsWith(t, <<"A", "B", "H", "E", "B", "U", "N", "G", " ", "A", "U", "T", "O", "M", "A", "T">>) THEN 4
     ELSE IF StartsWith(t, <<"E", "I", "N", "Z", "A", "H", "L", "U", "N", "G">>) THEN 5
     ELSE IF StartsWith(t, <<"L", "a", "s", "t", "s", "c", "h", "r", "i", "f", "t", " ", "J", "u", "s", "t", "i", "n", "C", "a", "s", "e">>) THEN 6
     ELSE IF StartsWith(doc, <<"S", "E", "P", "A", "-", "A", "U", "F", "T", "R", "A", "G", "S", "B", "E", "S", "T", "Ä", "T", "I", "G", "U", "N", "G">>) THEN 7
     ELSE IF StartsWith(doc, <<"G", "U", "T", "S", "C", "H", "R", "I", "F", "T">>) \/ StartsWith(doc, <<"S", "E", "P", "A">>) \/ StartsWith(doc, <<"Ü", "B", "E", "R", "W", "E", "I", "S", "U", "N", "G">>) THEN 8
     ELSE 9

TrnType_SignOnly(line, amount) == IF amount < 0 THEN "DEBIT" ELSE "CREDIT"

\* stmtline.trntype = 'DEBIT' if stmtline.amount < 0 else 'CREDIT', then the
\* overrides of the POS and ATM branches
TrnType(line, amount) ==
  IF Branch(line) = 1 THEN "POS"
  ELSE IF Branch(line) \in {2, 3, 4} THEN "ATM"
  ELSE IF amount < 0 THEN "DEBIT" ELSE "CREDIT"

NewCurrency_Overwrite(cur, line) == Col(line, 4)

\* the statement currency before any row sets it (None)
NoCurrency == <<"None">>

\* if not self.statement.currency: self.statement.currency = line[4]
NewCurrency(cur, line) == IF cur = NoCurrency \/ cur = << >> THEN Col(line, 4) ELSE cur

FixupMemo_KeepReason(line, memo, cur) ==
  LET b == Branch(line)
  IN IF b \in {1, 2} THEN parsePosAtm(Col(line, 2), cur)
     ELSE IF b \in {3, 4, 5, 6} THEN Col(line, 2)
     ELSE IF b \in {7, 8} THEN (IF memo = << >> THEN parseDocument(Col(line, 6)) ELSE memo)
     ELSE memo

\* stmtline.memo after the branch taken; memo is the payment reason mapped
\* from column 14, cur the statement currency
FixupMemo(line, memo, cur) ==
  LET b == Branch(line)
  IN IF b \in {1, 2} THEN parsePosAtm(Col(line, 2), cur)
     ELSE IF b \in {3, 4, 5, 6} THEN Col(line, 2)
     ELSE IF b \in {7, 8} THEN (IF memo = << >> THEN parseDocument(Col(line, 6)) ELSE memo)
     ELSE Col(line, 2)

\* stmtline.payee after the branch taken: "Auftraggebername holds the
\* information we want"
FixupPayee(line, payee) == IF Branch(line) = 8 THEN Col(line, 8) ELSE payee

\* "Add Internal Note, if exists"
AddNote(memo, note) ==
  IF note # << >>
  THEN (IF memo # << >> THEN memo \o <<" ">> ELSE memo) \o <<"(", "N", "O", "T", "E", ":", " ", ")">> \o note
  ELSE memo

NoLine == [date |-> [y |-> 0, m |-> 0, d |-> 0], date_user |-> [y |-> 0, m |-> 0, d |-> 0], amount |-> 0, check_no |-> << >>, trntype |-> "", payee |-> << >>, memo |-> << >>, id |-> << >>]

\* return None
Skipped(cur) == [kind |-> "skip", stmtline |-> NoLine, currency |-> cur]

\* an exception leaves parse_record
Raised(cur) == [kind |-> "raise", stmtline |-> NoLine, currency |-> cur]

\* the body of parse_record for a row that parses
Parsed(line, cur) ==
  LET sl == CsvParseRecord(line)
      id == generate_transaction_id(sl)
      cur1 == NewCurrency(cur, line)
  IN [kind |-> "line",
      stmtline |-> [date |-> sl.date,
                    date_user |-> parse_datetime(Col(line, 1)),
                    amount |-> sl.amount,
                    check_no |-> sl.check_no,
                    trntype |-> TrnType(line, sl.amount),
                    payee |-> clean_multiple_whitespaces(FixupPayee(line, sl.payee)),
                    memo |-> AddNote(clean_multiple_whitespaces(FixupMemo(line, sl.memo, cur1)), Col(line, 3)),
                    id |-> id],
      currency |-> cur1]

parse_record_CurrencyFirst(line, n, cur) ==
  IF IsHeader(n) THEN Skipped(cur)
  ELSE IF ~CsvParseOk(line) THEN Raised(NewCurrency(cur, line))
  ELSE Parsed(line, cur)

\* parse_record(line) as row n of the file, with statement currency cur
parse_record(line, n, cur) ==
  IF IsHeader(n) THEN Skipped(cur)
  ELSE IF ~CsvParseOk(line) THEN Raised(cur)
  ELSE Parsed(line, cur)

(***************************************************************************)
(* parse: the framework's row loop, then the balance.                      *)
(***************************************************************************)
RECURSIVE SumAmounts(_)
SumAmounts(ls) == IF ls = << >> THEN 0 ELSE ls[1].amount + SumAmounts(Tail(ls))

\* statement.recalculate_balance(stmt): an absent balance is << >>
recalculate_balance(sb, ls) ==
  LET start == IF sb = << >> THEN 0 ELSE sb[1]
  IN [start_balance |-> <<start>>, end_balance |-> <<start + SumAmounts(ls)>>]

parse_NoRecalculate(sb, eb, ls) == [start_balance |-> sb, end_balance |-> eb]

\* stmt = super().parse(); statement.recalculate_balance(stmt); return stmt
parse(sb, eb, ls) == recalculate_balance(sb, ls)

(***************************************************************************)
(* Input texts and rows.                                                   *)
(***************************************************************************)
Pad(s, n) == s \o [i \in 1..(n - Len(s)) |-> " "]

T_POS == <<"P", "O", "S", " ", " ", " ", " ", " ", " ", " ", " ", " ", " ", "1", "1", ",", "0", "0", " ", "N", "L", " ", " ", "K", "1", " ", " ", " ", "1", "6", ".", "0", "1", ".", " ", "1", "4", ":", "4", "6", " ", "O", " ", "N", "S", " ", "S", "C", "H", "I", "P", "H", "O", "L", " ", "2", "1", "6", " ", " ", " ", " ", " ", " ", " ", " ", "L", "U", "C", "H", "T", "H", "A", "V", "E", "N", " ", "S", "C", " ", "1", "1", "1", "8", " ", "A", "X">>

T_POS_MEMO == <<"P", "O", "S", ":", " ", "N", "S", " ", "S", "C", "H", "I", "P", "H", "O", "L", " ", "2", "1", "6", ",", " ", "1", "1", "1", "8", " ", "A", "X", " ", "L", "U", "C", "H", "T", "H", "A", "V", "E", "N", " ", "S", "C", ",", " ", "N", "L", ";", " ", "1", "1", ",", "0", "0", " ", "E", "U", "R", " ", "o", "n", " ", "1", "6", ".", "0", "1", ".", " ", "1", "4", ":", "4", "6", "h">>

T_POS2 == <<"P", "O", "S", " ", " ", " ", " ", " ", " ", " ", " ", " ", " ", "1", "1", ",", "0", "0", " ", "A", "T", " ", " ", "K", "1", " ", " ", " ", "1", "6", ".", "0", "1", ".", " ", "1", "8", ":", "0", "2", " ", "O", " ", "B", "I", "L", "L", "A", " ", "D", "A", "N", "K", "T", " ", "0", "7", "3", "1", " ", " ", " ", " ", " ", " ", " ", "W", "I", "E", "N", " ", " ", " ", " ", " ", " ", " ", " ", " ", " ", "1", "0", "3", "0">>

T_POS_BAD == <<"P", "O", "S", " ", "G", "E", "B", "U", "E", "H", "R", " ", "1", ",", "5", "0">>

T_ATM == <<"A", "T", "M", " ", " ", " ", " ", " ", " ", " ", " ", " ", "1", "0", "0", ",", "0", "0", " ", "A", "T", " ", " ", "K", "1", " ", " ", " ", "1", "5", ".", "0", "1", ".", " ", "1", "9", ":", "0", "8", " ", "O", " ", "A", "T", "M", " ", "S", "6", "E", "E", "0", "2", "7", "5", " ", " ", " ", " ", " ", " ", " ", " ", " ", " ", " ", "K", "L", "O", "S", "T", "E", "R", "N", "E", "U", "B", "U", "R", " ", "4", "3", "0", "0">>

T_ATM_BAD == <<"A", "T", "M", "X", " ", "0", "0", "0", "1", "1", "9", "4", "2">>

T_AUTOMAT == <<"A", "U", "T", "O", "M", "A", "T", " ", " ", " ", "0", "0", "0", "1", "1", "9", "4", "2", " ", "K", "1", " ", " ", " ", "1", "4", ".", "0", "1", ".", " ", "1", "3", ":", "4", "7", " ", " ", " ", " ", " ", "O">>

T_BANKOMAT == <<"B", "A", "N", "K", "O", "M", "A", "T", " ", " ", "0", "0", "0", "2", "1", "2", "4", "1", " ", "K", "4", " ", " ", " ", "0", "8", ".", "0", "3", ".", " ", "0", "9", ":", "4", "3", " ", " ", " ", " ", " ", "O">>

T_ABHEBUNG == <<"A", "B", "H", "E", "B", "U", "N", "G", " ", "A", "U", "T", "O", "M", "A", "T", " ", "N", "R", ".", " ", "1", "4", "5", "4", "7", " ", "A", "M", " ", "3", "1", ".", "0", "1", ".", " ", "U", "M", " ", "1", "5", ".", "5", "3", " ", "U", "H", "R">>

T_EINZAHLUNG == <<"E", "I", "N", "Z", "A", "H", "L", "U", "N", "G", " ", "A", "U", "T", "O", "M", "A", "T", " ", "N", "R", ".", " ", "5", "5", "1", "4", "5", " ", "A", "M", " ", "3", "1", ".", "0", "1", ".", " ", "/", " ", "1", "5", ".", "5", "5", " ", "U", "H", "R">>

T_JUSTINCASE == <<"L", "a", "s", "t", "s", "c", "h", "r", "i", "f", "t", " ", "J", "u", "s", "t", "i", "n", "C", "a", "s", "e", " ", "M", "R", "e", "f", "A", "T", "1", "2", "3", "J", "I", "C", " ", "E", "n", "t", "g", "e", "l", "t">>

T_OTHER == <<"G", "e", "h", "a", "l", "t", " ", " ", "J", "a", "e", "n", "n", "e", "r", "\t", "2", "0", "1", "9", " ">>

T_BLANK == <<" ", " ">>

D_REASON == <<"S", "E", "P", "A", "-", "A", "U", "F", "T", "R", "A", "G", "S", "B", "E", "S", "T", "Ä", "T", "I", "G", "U", "N", "G", " ", "B", "e", "l", "e", "g", "n", "r", ".", ":", " ", "1", "2", "3", ".", "4", "5", "6", ".", "7", "8", "9", ".", "0", "1", "2", ".", "3", "4", " ", "Z", "a", "h", "l", "u", "n", "g", "s", "e", "m", "p", "f", ".", ":", " ">> \o Pad(<<"M", "a", "x", " ", "M", "u", "s", "t", "e", "r">>, 56) \o <<" ", "Z", "a", "h", "l", "u", "n", "g", "s", "g", "r", "u", "n", "d", ":", " ">> \o Pad(<<"M", "i", "e", "t", "e", " ", "M", "a", "i">>, 105) \o <<" ", "Z", "a", "h", "l", "u", "n", "g", "s", "r", "e", "f", ".", ":", " ">> \o Pad(<<"R", "F", "1", "8">>, 110)

D_REF == <<"G", "U", "T", "S", "C", "H", "R", "I", "F", "T", " ", "B", "e", "l", "e", "g", "n", "r", ".", ":", " ", "0", "0", "0", ".", "0", "0", "0", ".", "0", "0", "0", ".", "0", "0", "0", ".", "0", "1", " ", "Z", "a", "h", "l", "u", "n", "g", "s", "p", "f", "l", ".", ":", " ">> \o Pad(<<"A", "C", "M", "E", " ", "G", "m", "b", "H">>, 56) \o <<" ", "Z", "a", "h", "l", "u", "n", "g", "s", "g", "r", "u", "n", "d", ":", " ">> \o Pad(<< >>, 105) \o <<" ", "Z", "a", "h", "l", "u", "n", "g", "s", "r", "e", "f", ".", ":", " ">> \o Pad(<<"R", "F", "1", "8", " ", "5", "3", "9", "0">>, 110)

D_SEPA_BAD == <<"S", "E", "P", "A", " ", "L", "A", "S", "T", "S", "C", "H", "R", "I", "F", "T", " ", "B", "e", "l", "e", "g", "n", "r", ".", ":", " ", "1", "2">>

D_UEBERWEISUNG_BAD == <<"Ü", "B", "E", "R", "W", "E", "I", "S", "U", "N", "G", " ", " ", "Z", "a", "h", "l", "u", "n", "g", "s", "g", "r", "u", "n", "d", ":", " ", "x">>

D_OTHER == <<"B", "E", "L", "E", "G", " ", "4", "7", "1", "1">>

Date1 == <<"1", "4", ".", "0", "1", ".", "2", "0", "1", "9">>

Date2 == <<"1", "6", ".", "0", "1", ".", "2", "0", "1", "9">>

\* a row of the 15 columns: Buchungsdatum, Valutadatum, Buchungstext, Interne
\* Notiz, Waehrung, Betrag, Belegdaten, Belegnummer, Auftraggebername, ...,
\* Empfaengername, ..., Zahlungsgrund
Row(bdate, vdate, text, note, cur, amt, doc, payee, reason) ==
  <<bdate, vdate, text, note, cur, amt, doc, <<"0", "0", "0", "1">>, <<"A", "C", "M", "E", " ", " ", "G", "m", "b", "H">>, <<"A", "T", "0", "2">>, <<"1", "2", "0", "0", "0">>, payee, <<"A", "T", "6", "1">>, <<"2", "0", "1", "1", "1">>, reason>>

HeaderRow ==
  <<<<"B", "u", "c", "h", "u", "n", "g", "s", "d", "a", "t", "u", "m">>, <<"V", "a", "l", "u", "t", "a", "d", "a", "t", "u", "m">>, <<"B", "u", "c", "h", "u", "n", "g", "s", "t", "e", "x", "t">>, <<"I", "n", "t", "e", "r", "n", "e", " ", "N", "o", "t", "i", "z">>, <<"W", "a", "e", "h", "r", "u", "n", "g">>, <<"B", "e", "t", "r", "a", "g">>, <<"B", "e", "l", "e", "g", "d", "a", "t", "e", "n">>, <<"B", "e", "l", "e", "g", "n", "u", "m", "m", "e", "r">>, <<"A", "u", "f", "t", "r", "a", "g", "g", "e", "b", "e", "r", "n", "a", "m", "e">>, <<"A", "u", "f", "t", "r", "a", "g", "g", "e", "b", "e", "r", "k", "o", "n", "t", "o">>, <<"A", "u", "f", "t", "r", "a", "g", "g", "e", "b", "e", "r", " ", "B", "L", "Z">>, <<"E", "m", "p", "f", "a", "e", "n", "g", "e", "r", "n", "a", "m", "e">>, <<"E", "m", "p", "f", "a", "e", "n", "g", "e", "r", "k", "o", "n", "t", "o">>, <<"E", "m", "p", "f", "a", "e", "n", "g", "e", "r", " ", "B", "L", "Z">>, <<"Z", "a", "h", "l", "u", "n", "g", "s", "g", "r", "u", "n", "d">>>>

Texts == {T_POS, T_POS_BAD, T_ATM, T_ATM_BAD, T_AUTOMAT, T_BANKOMAT, T_ABHEBUNG, T_EINZAHLUNG, T_JUSTINCASE, T_OTHER, T_BLANK, << >>}

Docs == {<< >>, D_REASON, D_REF, D_SEPA_BAD, D_UEBERWEISUNG_BAD, D_OTHER}

Notes == {<< >>, <<"p", "r", "i", "v", "a", "t">>, <<"a", " ", " ", "b", " ">>}

Reasons == {<< >>, <<"M", "i", "e", "t", "e", " ", " ", "M", "a", "i">>}

Amounts == {<<"-", "1", "1", ",", "0", "0">>, <<"1", ".", "2", "3", "4", ",", "5", "6">>, <<"0", ",", "0", "0">>, <<"a", "b", "c">>}

\* the rows of the one-row files: every column that parse_record reads varies
DetailRows ==
  {Row(Date1, vd, t, n, <<"E", "U", "R">>, a, d, p, r) :
     vd \in {Date1, Date2}, t \in Texts, n \in Notes, a \in Amounts, d \in Docs, p \in {<< >>, <<"S", "h", "o", "p", " ", " ", "A">>}, r \in Reasons}

\* the rows of the files of several rows: currency and amount vary, and one
\* row is a second purchase of the same amount on the same day
PlainRows ==
  {Row(Date1, Date1, T_POS, << >>, c, a, << >>, << >>, << >>) :
     c \in {<< >>, <<"E", "U", "R">>, <<"U", "S", "D">>}, a \in {<<"-", "1", "1", ",", "0", "0">>, <<"1", ".", "2", "3", "4", ",", "5", "6">>, <<"a", "b", "c">>}}
  \cup {Row(Date1, Date1, T_POS2, << >>, <<"E", "U", "R">>, <<"-", "1", "1", ",", "0", "0">>, << >>, << >>, << >>)}

\* the largest number of data rows of a file of several rows
MaxRows == 2

Files ==
  {<< >>, <<HeaderRow>>}
  \cup {<<HeaderRow, r>> : r \in DetailRows}
  \cup UNION {{<<HeaderRow>> \o f : f \in [1..n -> PlainRows]} : n \in 1..MaxRows}

(***************************************************************************)
(* The parser as a state machine.  fin is the file, cur_record the number  *)
(* of rows read, currency and lines the statement being built.             *)
(***************************************************************************)
Init ==
  /\ fin \in Files
  /\ cur_record = 0
  /\ currency = NoCurrency
  /\ lines = << >>
  /\ start_balance \in {<< >>, <<5000>>}
  /\ end_balance = << >>
  /\ pc = "parsing"

\* the result of parse_record on the next row
NextRecord == parse_record(fin[cur_record + 1], cur_record + 1, currency)

MoreRows == pc = "parsing" /\ cur_record < Len(fin)

\* parse_record returned None: nothing is appended
SkipRow ==
  /\ MoreRows
  /\ NextRecord.kind = "skip"
  /\ cur_record' = cur_record + 1
  /\ currency' = NextRecord.currency
  /\ UNCHANGED <<fin, lines, start_balance, end_balance, pc>>

\* parse_record returned a statement line: it is appended
AppendRow ==
  /\ MoreRows
  /\ NextRecord.kind = "line"
  /\ cur_record' = cur_record + 1
  /\ currency' = NextRecord.currency
  /\ lines' = Append(lines, NextRecord.stmtline)
  /\ UNCHANGED <<fin, start_balance, end_balance, pc>>

\* parse_record raised: the exception leaves parse()
RaiseRow ==
  /\ MoreRows
  /\ NextRecord.kind = "raise"
  /\ cur_record' = cur_record + 1
  /\ currency' = NextRecord.currency
  /\ pc' = "error"
  /\ UNCHANGED <<fin, lines, start_balance, end_balance>>

\* the rows are exhausted: the balance is recalculated and parse() returns
Return ==
  /\ pc = "parsing"
  /\ cur_record = Len(fin)
  /\ start_balance' = parse(start_balance, end_balance, lines).start_balance
  /\ end_balance' = parse(start_balance, end_balance, lines).end_balance
  /\ pc' = "done"
  /\ UNCHANGED <<fin, cur_record, currency, lines>>

Next == SkipRow \/ AppendRow \/ RaiseRow \/ Return

Spec == Init /\ [][Next]_vars

TypeOK ==
  /\ cur_record \in 0..Len(fin)
  /\ pc \in {"parsing", "done", "error"}
  /\ Len(lines) <= Len(fin)

(***************************************************************************)
(* Properties.  Record i of the statement comes from row i + 1 of the      *)
(* file: the header is row 1 and a row that raises ends the run.           *)
(***************************************************************************)
RowOf(i) == fin[i + 1]

AmountOf(line) == parse_decimal(fix_amount_string(Col(line, 5)))

AmountParses(line) == IsDecimal(fix_amount_string(Col(line, 5)))

Records == 1..Len(lines)

KnownPrefixes == {<<"P", "O", "S">>, <<"A", "T", "M">>, <<"A", "U", "T", "O", "M", "A", "T">>, <<"B", "A", "N", "K", "O", "M", "A", "T">>, <<"A", "B", "H", "E", "B", "U", "N", "G", " ", "A", "U", "T", "O", "M", "A", "T">>, <<"E", "I", "N", "Z", "A", "H", "L", "U", "N", "G">>, <<"L", "a", "s", "t", "s", "c", "h", "r", "i", "f", "t", " ", "J", "u", "s", "t", "i", "n", "C", "a", "s", "e">>}

HasKnownPrefix(t) == \E q \in KnownPrefixes : StartsWith(t, q)

DocLabels == {<<"S", "E", "P", "A", "-", "A", "U", "F", "T", "R", "A", "G", "S", "B", "E", "S", "T", "Ä", "T", "I", "G", "U", "N", "G">>, <<"G", "U", "T", "S", "C", "H", "R", "I", "F", "T">>, <<"S", "E", "P", "A">>, <<"Ü", "B", "E", "R", "W", "E", "I", "S", "U", "N", "G">>}

HasDocLabel(d) == \E q \in DocLabels : StartsWith(d, q)

\* C1: the type of every record follows the first matching rule: POS for a
\* booking text starting with POS; ATM for one starting with ATM, AUTOMAT,
\* BANKOMAT or ABHEBUNG AUTOMAT; otherwise DEBIT for a negative and CREDIT for
\* a non-negative amount.  The document details never change the type, and
\* for a booking text with a known prefix neither payee nor memo comes from
\* the document details or the payer name.
C1_TypeByFirstMatchingRule ==
  \A i \in Records :
    LET line == RowOf(i)
        t == Col(line, 2)
        statementCur == IF Col(line, 4) # << >> /\ currency = << >> THEN Col(line, 4) ELSE currency
    IN /\ lines[i].trntype =
            IF StartsWith(t, <<"P", "O", "S">>) THEN "POS"
            ELSE IF StartsWith(t, <<"A", "T", "M">>) \/ StartsWith(t, <<"A", "U", "T", "O", "M", "A", "T">>) \/ StartsWith(t, <<"B", "A", "N", "K", "O", "M", "A", "T">>) \/ StartsWith(t, <<"A", "B", "H", "E", "B", "U", "N", "G", " ", "A", "U", "T", "O", "M", "A", "T">>) THEN "ATM"
            ELSE IF AmountOf(line) < 0 THEN "DEBIT"
            ELSE "CREDIT"
       /\ HasKnownPrefix(t) =>
            /\ lines[i].payee = clean_multiple_whitespaces(Col(line, 11))
            /\ \E c \in {currency, Col(line, 4)} :
                 lines[i].memo = AddNote(clean_multiple_whitespaces(
                     IF StartsWith(t, <<"P", "O", "S">>) \/ StartsWith(t, <<"A", "T", "M">>) THEN parsePosAtm(t, c) ELSE t), Col(line, 3))

C1_Witness ==
  \E i \in Records :
    /\ StartsWith(Col(RowOf(i), 2), <<"B", "A", "N", "K", "O", "M", "A", "T">>)
    /\ StartsWith(Col(RowOf(i), 6), <<"G", "U", "T", "S", "C", "H", "R", "I", "F", "T">>)
    /\ AmountOf(RowOf(i)) > 0
    /\ lines[i].trntype = "ATM"

\* C2: the statement currency is the currency column of the earliest
\* processed data row with a non-empty currency, and unset (None or empty)
\* when no processed row has one; a later row with another currency does not
\* change it.
C2_CurrencyFirstNonEmptyWins ==
  LET supplied == {i \in Records : Col(RowOf(i), 4) # << >>}
  IN IF supplied = {} THEN currency \in {NoCurrency, << >>}
     ELSE currency = Col(RowOf(MinOf(supplied)), 4)

C2_Witness ==
  /\ Len(lines) = 2
  /\ Col(RowOf(1), 4) = <<"E", "U", "R">>
  /\ Col(RowOf(2), 4) = <<"U", "S", "D">>
  /\ currency = <<"E", "U", "R">>

\* C3 as claimed: when parse() has ended, every data row whose amount parses
\* has become a record, the rows after a row with a bad amount included.
C3_OtherRowsStillProcessed ==
  pc \in {"done", "error"} =>
    Len(lines) = Cardinality({n \in 2..Len(fin) : AmountParses(fin[n])})

\* C3 as amended: a row whose amount does not parse raises and yields no
\* record, and the raising step leaves currency, records and balance as
\* they were; the rows before it are records; the exception ends parse(), so
\* no later row is processed and no step follows.
C3_BadAmountRaisesAndEndsParse ==
  /\ [](pc = "error" =>
          /\ cur_record >= 2
          /\ ~AmountParses(fin[cur_record])
          /\ Len(lines) = cur_record - 2
          /\ end_balance = << >>)
  /\ [][/\ pc # "error"
        /\ (pc' = "error" => lines' = lines /\ currency' = currency /\ end_balance' = end_balance)
        /\ (cur_record' > cur_record /\ ~IsHeader(cur_record') /\ ~AmountParses(fin[cur_record']) => pc' = "error")]_vars

C3_Witness ==
  /\ pc = "error"
  /\ cur_record = 2
  /\ Len(fin) = 3
  /\ AmountParses(fin[3])
  /\ Col(fin[2], 4) = <<"U", "S", "D">>
  /\ currency = NoCurrency
  /\ lines = << >>

\* C4: while no row has raised, the records are the rows after the header,
\* one for one and in file order (amount, value date and document number of
\* record i are those of row i + 1); the first row never yields a record and
\* never raises, although the header's amount cell is not a number.
C4_RecordsFollowRowsInOrder ==
  /\ pc # "error" =>
       /\ Len(lines) = (IF cur_record = 0 THEN 0 ELSE cur_record - 1)
       /\ \A i \in Records :
            /\ AmountParses(RowOf(i))
            /\ lines[i].amount = AmountOf(RowOf(i))
            /\ lines[i].date = parse_datetime(Col(RowOf(i), 1))
            /\ lines[i].check_no = Col(RowOf(i), 7)
  /\ pc = "done" => Len(lines) = (IF fin = << >> THEN 0 ELSE Len(fin) - 1)
  /\ pc = "error" => cur_record > 1
  /\ cur_record = 1 => lines = << >> /\ pc # "error"

C4_Witness ==
  /\ pc = "done"
  /\ Len(lines) = 2
  /\ ~AmountParses(fin[1])
  /\ lines[1].amount = 123456
  /\ lines[2].amount = -1100

\* C5 as claimed: for a booking text that is non-empty and has no known
\* prefix, the memo is the cleaned booking text, whatever the other columns.
C5_MemoIsCleanedBookingText ==
  \A i \in Records :
    LET t == Col(RowOf(i), 2)
    IN (t # << >> /\ ~HasKnownPrefix(t)) => lines[i].memo = clean_multiple_whitespaces(t)

\* C5 as amended: for such a booking text, when the document details start
\* with none of the labels SEPA-AUFTRAGSBESTÄTIGUNG, GUTSCHRIFT, SEPA and
\* ÜBERWEISUNG, the memo is the cleaned booking text, followed by
\* "(NOTE: )" and the internal note when the note is non-empty (after one
\* space when the cleaned text is non-empty), whatever the payment reason.
C5_MemoIsCleanedBookingTextPlusNote ==
  \A i \in Records :
    LET t == Col(RowOf(i), 2)
        note == Col(RowOf(i), 3)
        cleaned == clean_multiple_whitespaces(t)
    IN (t # << >> /\ ~HasKnownPrefix(t) /\ ~HasDocLabel(Col(RowOf(i), 6))) =>
         lines[i].memo = IF note = << >> THEN cleaned
                         ELSE IF cleaned = << >> THEN <<"(", "N", "O", "T", "E", ":", " ", ")">> \o note
                         ELSE cleaned \o <<" ", "(", "N", "O", "T", "E", ":", " ", ")">> \o note

C5_Witness ==
  \E i \in Records :
    /\ Col(RowOf(i), 2) = T_OTHER
    /\ Col(RowOf(i), 6) = D_OTHER
    /\ Col(RowOf(i), 14) # << >>
    /\ Col(RowOf(i), 3) = <<"p", "r", "i", "v", "a", "t">>
    /\ lines[i].memo = <<"G", "e", "h", "a", "l", "t", " ", "J", "a", "e", "n", "n", "e", "r", " ", "2", "0", "1", "9", " ", "(", "N", "O", "T", "E", ":", " ", ")", "p", "r", "i", "v", "a", "t">>

\* C6 as claimed: memo and payee of every record are whitespace-normalized,
\* that is, unchanged by the whitespace cleaner.
C6_MemoAndPayeeAreCleaned ==
  \A i \in Records :
    /\ clean_multiple_whitespaces(lines[i].memo) = lines[i].memo
    /\ clean_multiple_whitespaces(lines[i].payee) = lines[i].payee

\* C7 as claimed: the value date of every record is the parsed column 1 and
\* its user (booking) date the parsed column 0.
C7_DatesFromTheirColumns ==
  \A i \in Records :
    /\ lines[i].date = parse_datetime(Col(RowOf(i), 1))
    /\ lines[i].date_user = parse_datetime(Col(RowOf(i), 0))

\* the rows after the header
DataRows == IF fin = << >> THEN << >> ELSE Tail(fin)

RECURSIVE SumRows(_)
SumRows(rows) == IF rows = << >> THEN 0 ELSE AmountOf(rows[1]) + SumRows(Tail(rows))

\* C8: the balance is absent until parse() returns; the step that returns is
\* taken when every row has been read, and it sets the end balance to the
\* opening balance (zero when none was supplied) plus the sum of the amounts
\* of all data rows.
C8_BalanceOnceAfterLastRow ==
  [][/\ pc' # "done" => end_balance' = << >>
     /\ pc' = "done" =>
          /\ cur_record = Len(fin)
          /\ end_balance = << >>
          /\ end_balance' = <<(IF start_balance = << >> THEN 0 ELSE start_balance[1]) + SumRows(DataRows)>>]_vars

C8_Witness ==
  /\ pc = "done"
  /\ Len(lines) = 2
  /\ lines[1].amount = -1100
  /\ lines[2].amount = 123456
  /\ start_balance = <<5000>>
  /\ end_balance = <<127356>>

PosAtmMatches(t) == Search(PosAtmPattern, t, 0).ok

DocumentMatches(d) == Search(DocumentPattern, d, 0).ok

\* C9: a pattern mismatch never raises.  A row raises only for its amount;
\* a POS or ATM booking text that does not fit the fixed layout, and document
\* details consulted with an empty payment reason that do not fit the labeled
\* pattern, give a record whose memo is the cleaned "ERR: " + original text
\* (then the note), beginning with "ERR:", while type, amount and dates are
\* set as for any row.
C9_MismatchGivesErrMemo ==
  /\ pc = "error" => ~AmountParses(fin[cur_record])
  /\ \A i \in Records :
       LET line == RowOf(i)
           t == Col(line, 2)
           doc == Col(line, 6)
           posatm == StartsWith(t, <<"P", "O", "S">>) \/ StartsWith(t, <<"A", "T", "M">>)
           original == IF posatm THEN t ELSE doc
           mismatch == \/ posatm /\ ~PosAtmMatches(t)
                       \/ /\ ~HasKnownPrefix(t)
                          /\ HasDocLabel(doc)
                          /\ Col(line, 14) = << >>
                          /\ ~DocumentMatches(doc)
       IN mismatch =>
            /\ StartsWith(lines[i].memo, <<"E", "R", "R", ":">>)
            /\ lines[i].memo = AddNote(clean_multiple_whitespaces(<<"E", "R", "R", ":", " ">> \o original), Col(line, 3))
            /\ lines[i].trntype = (IF StartsWith(t, <<"P", "O", "S">>) THEN "POS" ELSE IF StartsWith(t, <<"A", "T", "M">>) THEN "ATM" ELSE IF AmountOf(line) < 0 THEN "DEBIT" ELSE "CREDIT")
            /\ lines[i].amount = AmountOf(line)
            /\ lines[i].date = parse_datetime(Col(line, 1))

C9_Witness ==
  /\ \E i \in Records : Col(RowOf(i), 2) = T_POS_BAD /\ lines[i].trntype = "POS" /\ lines[i].memo = <<"E", "R", "R", ":", " ", "P", "O", "S", " ", "G", "E", "B", "U", "E", "H", "R", " ", "1", ",", "5", "0">>
  /\ pc = "done"

C9_WitnessDocument ==
  \E i \in Records :
    /\ Col(RowOf(i), 2) = T_OTHER
    /\ Col(RowOf(i), 6) = D_UEBERWEISUNG_BAD
    /\ lines[i].memo = <<"E", "R", "R", ":", " ", "Ü", "B", "E", "R", "W", "E", "I", "S", "U", "N", "G", " ", "Z", "a", "h", "l", "u", "n", "g", "s", "g", "r", "u", "n", "d", ":", " ", "x">>

\* the fields of a finished record other than its id
Finished(sl) == <<sl.date, sl.date_user, sl.amount, sl.check_no, sl.trntype, sl.payee, sl.memo>>

\* C10 as claimed: the id comes from the finished record: two records of the
\* same dates and amount that differ in memo or payee have different ids,
\* and two records equal in every finished field have equal ids.
C10_IdFromFinishedRecord ==
  \A i, j \in Records :
    /\ ( /\ lines[i].date = lines[j].date
         /\ lines[i].date_user = lines[j].date_user
         /\ lines[i].amount = lines[j].amount
         /\ (lines[i].memo # lines[j].memo \/ lines[i].payee # lines[j].payee) )
       => lines[i].id # lines[j].id
    /\ Finished(lines[i]) = Finished(lines[j]) => lines[i].id = lines[j].id
====
